---- MODULE Spec2Model ----
(***************************************************************************)
(* FLWS live monitor (production/flws_live_monitor_jan29.py).              *)
(*                                                                         *)
(* One process: the __main__ block runs main() once, or in --loop mode    *)
(* repeatedly until a 540 s session deadline.  main() fetches one          *)
(* observation through get_live_data() (Polygon first, yfinance second),   *)
(* composes a Discord payload with generate_status_report() and posts it.  *)
(*                                                                         *)
(* Units.  Prices are in mills (1/1000 $), so a value rounded to two       *)
(* decimals is a multiple of 10.  Percentages are in 1/1000 %.  The        *)
(* spread is in tenths of a cent, the imbalance in hundredths, vol_pct in  *)
(* tenths of a percent (as rendered by the .1f format).  Inputs are chosen *)
(* away from exact rounding halves, where the binary representation of    *)
(* the float would decide the result.                                      *)
(***************************************************************************)
EXTENDS Integers, Sequences, FiniteSets, TLC

VARIABLES
    POLYGON_KEY,        \* module constant: a Polygon credential was found
    YFINANCE_AVAILABLE, \* module constant: import yfinance succeeded
    WEBHOOK_URL,        \* module constant: a webhook endpoint was found
    loop,               \* args.loop
    pc,                 \* position of the process
    clock,              \* time.time(), seconds since the process started
    end_time,           \* __main__'s end_time
    polyResp,           \* what the Polygon endpoint answered in this cycle
    yfResp,             \* what yfinance answered in this cycle
    poly_data,          \* get_live_data's local poly_data
    now,                \* datetime.now() as read by get_live_data
    data,               \* main's local data
    payload,            \* main's local payload
    calls,              \* the external calls made in this cycle, in order
    out,                \* the lines printed in this cycle, in order
    raised              \* an exception is propagating out of main()

vars == <<POLYGON_KEY, YFINANCE_AVAILABLE, WEBHOOK_URL, loop, pc, clock,
          end_time, polyResp, yfResp, poly_data, now, data, payload, calls,
          out, raised>>

\* Python's None, and a JSON value that is not a number (null).
None == [none |-> TRUE]
NonNumeric == -1

-----------------------------------------------------------------------------
(* Configuration, lines 44-52 *)

DISCORD_ENABLED == TRUE
NATURAL_FLOOR == 4800
PIN_BREAK == 5030
MARGIN_STRESS == 5460
NUCLEAR == 6000
VACUUM_VOLUME_TARGET == 1500000

SESSION_SECONDS == 540
SLEEP_SECONDS == 60

-----------------------------------------------------------------------------
(* Inputs *)

MaxVolumeSteps == 1
VolumeStep == 800000

Volumes == {k * VolumeStep : k \in 0..MaxVolumeSteps}

RawPrices == {4500, 4796, 4800, 5030, 5034, 5460, 5500, 6000, 6010}

\* lastQuote of the snapshot: bid price P, ask price p, bid size s, ask size S.
QuotePrices == {<<0, 5060>>, <<5000, 5050>>, <<5000, 5060>>}
QuoteSizes == {<<0, 0>>, <<650, 350>>, <<650, 200>>, <<200, 650>>}

Quotes ==
    {[P |-> qp[1], p |-> qp[2], s |-> qs[1], S |-> qs[2]] :
        qp \in QuotePrices, qs \in QuoteSizes}

\* day of the snapshot: v is required, vw/h/l are read with .get
DayStats == {None, [vw |-> 5200, h |-> 6100, l |-> 4400]}

PolygonBodies ==
    {[lastTrade_p |-> p, prevDay_c |-> 5000, todaysChangePerc |-> 10004,
      day_v |-> v, day_stats |-> ds, lastQuote |-> q] :
        p \in RawPrices, v \in Volumes \cup {NonNumeric}, ds \in DayStats,
        q \in Quotes \cup {None}}

\* The answer to requests.get: an exception (timeout, connection error), a
\* status other than 200, a 200 whose JSON lacks a required key, a 200 with
\* a snapshot.
PolygonResponses ==
    {[kind |-> "exception"], [kind |-> "http", status |-> 500],
     [kind |-> "http", status |-> 200, body |-> None]}
    \cup {[kind |-> "http", status |-> 200, body |-> b] : b \in PolygonBodies}

\* Times of day <<hour, minute>> at which get_live_data reads the clock.
TimePairs == {<<8, 59>>, <<9, 10>>, <<10, 30>>, <<16, 30>>, <<17, 0>>}

Times == {[hour |-> t[1], minute |-> t[2]] : t \in TimePairs}

-----------------------------------------------------------------------------
(* Arithmetic *)

\* round(x, n): x to the nearest multiple of unit
Round(x, unit) == ((2 * x + unit) \div (2 * unit)) * unit

\* round(n / d) to the nearest integer, d > 0
RoundDiv(n, d) == (2 * n + d) \div (2 * d)

Max(a, b) == IF a >= b THEN a ELSE b

Get(d, key, default) == IF key \in DOMAIN d THEN d[key] ELSE default

-----------------------------------------------------------------------------
(* get_polygon_snapshot, lines 86-132 *)

PolygonObservation(b) ==
    LET last_quote == IF b.lastQuote = None THEN [x \in {} |-> 0] ELSE b.lastQuote
        bid == Get(last_quote, "P", 0)
        ask == Get(last_quote, "p", 0)
        spread_cents == IF bid # 0 /\ ask # 0 THEN ask - bid ELSE 0
        bid_size == Get(last_quote, "s", 0)
        ask_size == Get(last_quote, "S", 0)
        imbalance == IF bid_size + ask_size > 0
                     THEN RoundDiv(100 * (bid_size - ask_size), bid_size + ask_size)
                     ELSE 0
        day == IF b.day_stats = None THEN [x \in {} |-> 0] ELSE b.day_stats
    IN  [source |-> "POLYGON (Real-Time)",
         price |-> Round(b.lastTrade_p, 10),
         prev_close |-> Round(b.prevDay_c, 10),
         change_pct |-> Round(b.todaysChangePerc, 10),
         volume |-> b.day_v,
         vwap |-> Get(day, "vw", 0),
         high |-> Get(day, "h", b.lastTrade_p),
         low |-> Get(day, "l", b.lastTrade_p),
         spread |-> spread_cents,
         bid_size |-> bid_size,
         ask_size |-> ask_size,
         imbalance |-> imbalance]

get_polygon_snapshot(key, resp) ==
    IF ~key THEN None
    ELSE IF resp.kind = "exception" THEN None
    ELSE IF resp.status # 200 THEN None
    ELSE IF resp.body = None THEN None
    ELSE PolygonObservation(resp.body)

\* What get_polygon_snapshot prints: only its except clause prints.
PolygonPrints(key, resp) ==
    IF ~key THEN <<>>
    ELSE IF resp.kind = "exception" THEN <<"polygon_fetch_error">>
    ELSE IF resp.status # 200 THEN <<>>
    ELSE IF resp.body = None THEN <<"polygon_fetch_error">>
    ELSE <<>>

-----------------------------------------------------------------------------
(* get_live_data, lines 134-193 *)

YfHistories ==
    {None} \cup
    {[Volume |-> v, Close |-> c, High |-> c + 100, Low |-> c - 100] :
        v \in Volumes, c \in RawPrices}

\* What yfinance answers: an exception anywhere in the try block (network,
\* missing attribute, previous_close None), or fast_info plus the one-day
\* history, which may be empty.
YfResponses ==
    {[kind |-> "exception"]}
    \cup {[kind |-> "ok", last_price |-> 5234, previous_close |-> 5000,
           history |-> h] : h \in YfHistories}

\* now.replace(hour=9, minute=30, ...), as a minute of the day
market_open == 9 * 60 + 30

MinuteOfDay(t) == t.hour * 60 + t.minute

MinutesOpen(t) == Max(1, MinuteOfDay(t) - market_open)

InMarketHours(t) == 9 <= t.hour /\ t.hour <= 16

\* A rate volume / minutes, kept as a fraction; 0 is 0/1.
Velocity(volume, t) ==
    IF InMarketHours(t)
    THEN [num |-> volume, den |-> MinutesOpen(t)]
    ELSE [num |-> 0, den |-> 1]

\* Line 148 divides the volume: a volume that is no number raises TypeError.
VelocityRaises(volume, t) == InMarketHours(t) /\ volume = NonNumeric

WithVelocity(obs, t) ==
    [k \in DOMAIN obs \cup {"velocity"} |->
        IF k = "velocity" THEN Velocity(obs.volume, t) ELSE obs[k]]

\* Mutant: the delayed adapter's record labelled with the premium source.
YfObservationMislabelled(r) ==
    LET empty == r.history = None
        current_price == IF empty THEN r.last_price ELSE r.history.Close
    IN  [source |-> "POLYGON (Real-Time)",
         price |-> Round(current_price, 10),
         prev_close |-> Round(r.previous_close, 10),
         change_pct |->
             10 * RoundDiv((current_price - r.previous_close) * 10000,
                           r.previous_close),
         volume |-> IF empty THEN 0 ELSE r.history.Volume,
         high |-> Round(IF empty THEN r.last_price ELSE r.history.High, 10),
         low |-> Round(IF empty THEN r.last_price ELSE r.history.Low, 10)]

YfObservation(r) ==
    LET empty == r.history = None
        volume == IF empty THEN 0 ELSE r.history.Volume
        current_price == IF empty THEN r.last_price ELSE r.history.Close
        high == IF empty THEN r.last_price ELSE r.history.High
        low == IF empty THEN r.last_price ELSE r.history.Low
    IN  [source |-> "YFINANCE (Retail)",
         price |-> Round(current_price, 10),
         prev_close |-> Round(r.previous_close, 10),
         change_pct |->
             10 * RoundDiv((current_price - r.previous_close) * 10000,
                           r.previous_close),
         volume |-> volume,
         high |-> Round(high, 10),
         low |-> Round(low, 10)]

\* Mutant: the except clause returns a zero-filled record instead of None.
YfResultZeroOnError(r) ==
    IF r.kind = "exception"
    THEN [source |-> "YFINANCE (Retail)", price |-> 0, prev_close |-> 0,
          change_pct |-> 0, volume |-> 0, high |-> 0, low |-> 0]
    ELSE YfObservation(r)

\* The try block of the delayed adapter: the observation, or None from the
\* except clause.
YfResult(r) == IF r.kind = "exception" THEN None ELSE YfObservation(r)

-----------------------------------------------------------------------------
(* generate_status_report, lines 198-269 *)

\* Mutant: the floor test written with <=.
StatusFloorInclusive(price) ==
    IF price > NUCLEAR THEN "NUCLEAR LIQUIDATION"
    ELSE IF price > MARGIN_STRESS THEN "MARGIN STRESS"
    ELSE IF price > PIN_BREAK THEN "PIN BROKEN"
    ELSE IF price <= NATURAL_FLOOR THEN "DISCOUNT"
    ELSE "SAFE"

Status(price) ==
    IF price > NUCLEAR THEN "NUCLEAR LIQUIDATION"
    ELSE IF price > MARGIN_STRESS THEN "MARGIN STRESS"
    ELSE IF price > PIN_BREAK THEN "PIN BROKEN"
    ELSE IF price < NATURAL_FLOOR THEN "DISCOUNT"
    ELSE "SAFE"

Color(price) ==
    IF price > NUCLEAR THEN "FF0000"
    ELSE IF price > MARGIN_STRESS THEN "E67E22"
    ELSE IF price > PIN_BREAK THEN "F1C40F"
    ELSE IF price < NATURAL_FLOOR THEN "3498DB"
    ELSE "2ECC71"

Pressure(d) ==
    IF Get(d, "imbalance", 0) > 30 THEN "BUYING PRESSURE"
    ELSE IF Get(d, "imbalance", 0) < -30 THEN "SELLING WALL"
    ELSE "BALANCED"

\* The markers of the Key Levels field compare with literals 6.00, 5.46,
\* 5.03 and 4.80.
BreachMarker(price, level) == IF price >= level THEN "BREACHED" ELSE "Wait..."

\* Mutant: the floor marker written with >.
FloorMarkerStrict(price) == IF price > 4800 THEN "HELD" ELSE "AT RISK"

FloorMarker(price) == IF price >= 4800 THEN "HELD" ELSE "AT RISK"

\* {data.get('spread', 'N/A')}: the number, or the text N/A
SpreadText(d) ==
    IF "spread" \in DOMAIN d THEN [num |-> d.spread] ELSE [text |-> "N/A"]

SpreadTag(d) ==
    IF Get(d, "spread", 0) > 50 THEN "WIDENING - Vacuum Forming"
    ELSE "Tight - Algo Controlled"

generate_status_report(d) ==
    LET price == d.price
        volume == d.volume
        \* (volume / target) * 100 in tenths of a percent; the target is a
        \* multiple of 1000
        vol_pct == RoundDiv(volume, VACUUM_VOLUME_TARGET \div 1000)
    IN  [title |-> Status(price),
         color |-> Color(price),
         price |-> price,
         change_pct |-> d.change_pct,
         volume |-> volume,
         vol_pct |-> vol_pct,
         pressure |-> Pressure(d),
         imbal |-> [num |-> Get(d, "imbalance", 0)],
         nuclear |-> BreachMarker(price, 6000),
         stress |-> BreachMarker(price, 5460),
         pin |-> BreachMarker(price, 5030),
         floor |-> FloorMarker(price),
         spread_width |-> SpreadText(d),
         spread_tag |-> SpreadTag(d),
         bid_stack |-> [num |-> Get(d, "bid_size", 0)],
         ask_wall |-> [num |-> Get(d, "ask_size", 0)],
         footer_source |-> Get(d, "source", "None")]

-----------------------------------------------------------------------------
(* The process *)

Init ==
    /\ POLYGON_KEY \in BOOLEAN
    /\ YFINANCE_AVAILABLE \in BOOLEAN
    /\ WEBHOOK_URL \in BOOLEAN
    /\ loop \in BOOLEAN
    /\ pc = "start"
    /\ clock = 0
    /\ end_time = 0
    /\ polyResp = None
    /\ yfResp = None
    /\ poly_data = None
    /\ now = None
    /\ data = None
    /\ payload = None
    /\ calls = <<>>
    /\ out = <<>>
    /\ raised = FALSE

config == <<POLYGON_KEY, YFINANCE_AVAILABLE, WEBHOOK_URL, loop>>

\* __main__, lines 307-316 and 327-328
Start ==
    /\ pc = "start"
    /\ IF loop
       THEN /\ out' = <<"starting_continuous_monitor">>
            /\ end_time' = clock + SESSION_SECONDS
            /\ pc' = "loop_test"
       ELSE /\ out' = out
            /\ end_time' = end_time
            /\ pc' = "main"
    /\ UNCHANGED <<config, clock, polyResp, yfResp, poly_data, now, data,
                   payload, calls, raised>>

\* while time.time() < end_time, line 318
LoopTest ==
    /\ pc = "loop_test"
    /\ pc' = IF clock < end_time THEN "main" ELSE "exit"
    /\ UNCHANGED <<config, clock, end_time, polyResp, yfResp, poly_data, now,
                   data, payload, calls, out, raised>>

\* main, lines 271-276: a call of main starts with fresh locals
MainStart ==
    /\ pc = "main"
    /\ polyResp' = None
    /\ yfResp' = None
    /\ poly_data' = None
    /\ now' = None
    /\ data' = None
    /\ payload' = None
    /\ calls' = <<>>
    /\ raised' = FALSE
    /\ IF ~WEBHOOK_URL
       THEN /\ out' = <<"starting", "no_webhook_url">>
            /\ pc' = "main_end"
       ELSE /\ out' = <<"starting">>
            /\ pc' = "get_live_data"
    /\ UNCHANGED <<config, clock, end_time>>

\* get_live_data, lines 134-158: the premium adapter, the velocity of its
\* observation, and the decision to fall back
GetLiveDataPolygon ==
    /\ pc = "get_live_data"
    /\ \E resp \in PolygonResponses, t \in Times :
        LET got == get_polygon_snapshot(POLYGON_KEY, resp)
            printed == out \o PolygonPrints(POLYGON_KEY, resp)
        IN  /\ polyResp' = IF POLYGON_KEY THEN resp ELSE None
            /\ calls' = IF POLYGON_KEY THEN Append(calls, "polygon") ELSE calls
            /\ poly_data' = got
            /\ IF got # None
               THEN /\ now' = t
                    /\ out' = printed
                    /\ IF VelocityRaises(got.volume, t)
                       THEN /\ raised' = TRUE
                            /\ data' = data
                            /\ pc' = "main_end"
                       ELSE /\ raised' = raised
                            /\ data' = WithVelocity(got, t)
                            /\ pc' = "got_data"
               ELSE /\ now' = now
                    /\ raised' = raised
                    /\ data' = data
                    /\ IF ~YFINANCE_AVAILABLE
                       THEN /\ out' = printed
                            /\ pc' = "got_data"
                       ELSE /\ out' = Append(printed, "using_retail_feed")
                            /\ pc' = "yfinance"
    /\ UNCHANGED <<config, clock, end_time, yfResp, payload>>

\* get_live_data, lines 159-193: the delayed adapter
GetLiveDataYfinance ==
    /\ pc = "yfinance"
    /\ \E resp \in YfResponses :
        /\ yfResp' = resp
        /\ calls' = Append(calls, "yfinance")
        /\ out' = IF resp.kind = "exception"
                  THEN Append(out, "data_fetch_error")
                  ELSE out
        /\ data' = YfResult(resp)
    /\ pc' = "got_data"
    /\ UNCHANGED <<config, clock, end_time, polyResp, poly_data, now, payload,
                   raised>>

\* main, lines 279-295.  Line 287 formats the volume with a thousands
\* separator, which raises for a volume that is no number.
MainCompose ==
    /\ pc = "got_data"
    /\ IF data = None
       THEN /\ out' = Append(out, "failed_to_get_live_data")
            /\ pc' = "main_end"
            /\ UNCHANGED <<payload, raised>>
       ELSE IF data.volume = NonNumeric
       THEN /\ out' = Append(out, "monitor_banner_head")
            /\ raised' = TRUE
            /\ pc' = "main_end"
            /\ UNCHANGED payload
       ELSE /\ payload' = generate_status_report(data)
            /\ raised' = raised
            /\ IF ~DISCORD_ENABLED
               THEN /\ out' = out \o <<"monitor_banner", "notifications_muted">>
                    /\ pc' = "main_end"
               ELSE /\ out' = Append(out, "monitor_banner")
                    /\ pc' = "post"
    /\ UNCHANGED <<config, clock, end_time, polyResp, yfResp, poly_data, now,
                   data, calls>>

\* What requests.post answers: a status, or an exception (0).
PostAnswers == {200, 204, 500, 0}

PostPrint(answer) ==
    IF answer = 0 THEN "connection_error"
    ELSE IF answer \in {200, 204} THEN "alert_sent"
    ELSE "send_failed"

\* Mutant: a rejected or failed delivery is tried again.
AfterPostRetry(answer) == IF answer \in {200, 204} THEN "main_end" ELSE "post"

\* Where main goes after the answer: it returns, whatever the answer.
AfterPost(answer) == "main_end"

\* main, lines 297-305: one requests.post
Deliver ==
    /\ pc = "post"
    /\ \E answer \in PostAnswers :
        /\ calls' = Append(calls, "discord")
        /\ out' = Append(out, PostPrint(answer))
        /\ pc' = AfterPost(answer)
    /\ UNCHANGED <<config, clock, end_time, polyResp, yfResp, poly_data, now,
                   data, payload, raised>>

\* Mutant: no try/except around main() in the loop.
AfterMainUncaught(looping, exc) ==
    IF exc THEN "crashed"
    ELSE IF looping THEN "loop_test"
    ELSE "exit"

\* Where the process goes when main() has returned or raised: lines 319-326
\* in --loop mode, line 328 otherwise.
AfterMain(looping, exc) ==
    IF looping THEN "loop_test"
    ELSE IF exc THEN "crashed"
    ELSE "exit"

MainEnd ==
    /\ pc = "main_end"
    /\ pc' = AfterMain(loop, raised)
    /\ IF loop
       THEN /\ out' = IF raised
                      THEN out \o <<"loop_error", "sleeping">>
                      ELSE Append(out, "sleeping")
            /\ clock' = clock + SLEEP_SECONDS
       ELSE UNCHANGED <<out, clock>>
    /\ UNCHANGED <<config, end_time, polyResp, yfResp, poly_data, now, data,
                   payload, calls, raised>>

Next ==
    \/ Start
    \/ LoopTest
    \/ MainStart
    \/ GetLiveDataPolygon
    \/ GetLiveDataYfinance
    \/ MainCompose
    \/ Deliver
    \/ MainEnd

Spec == Init /\ [][Next]_vars

-----------------------------------------------------------------------------
(* The classifier over a dense grid of prices: the process starts where    *)
(* get_live_data has just returned the delayed adapter's observation of a  *)
(* closing price on the grid, and main composes the payload.               *)

MinGridPrice == 4790
MaxGridPrice == 6010

GridResponses ==
    {[kind |-> "ok", last_price |-> 5234, previous_close |-> 5000,
      history |-> [Volume |-> VolumeStep, Close |-> c, High |-> c + 100,
                   Low |-> c - 100]] : c \in MinGridPrice..MaxGridPrice}

InitClassify ==
    /\ POLYGON_KEY = FALSE
    /\ YFINANCE_AVAILABLE = TRUE
    /\ WEBHOOK_URL = TRUE
    /\ loop = FALSE
    /\ pc = "got_data"
    /\ clock = 0
    /\ end_time = 0
    /\ polyResp = None
    /\ poly_data = None
    /\ now = None
    /\ \E resp \in GridResponses :
        /\ yfResp = resp
        /\ data = YfResult(resp)
    /\ payload = None
    /\ calls = <<"yfinance">>
    /\ out = <<"starting", "using_retail_feed">>
    /\ raised = FALSE

NextClassify == MainCompose

SpecClassify == InitClassify /\ [][NextClassify]_vars

-----------------------------------------------------------------------------
(* Properties *)

Range(seq) == {seq[i] : i \in 1..Len(seq)}

Count(seq, x) == Cardinality({i \in 1..Len(seq) : seq[i] = x})

RequiredFields ==
    {"source", "price", "prev_close", "change_pct", "volume", "high", "low"}

PremiumOnlyFields ==
    {"vwap", "spread", "bid_size", "ask_size", "imbalance", "velocity"}

\* get_live_data has returned to main in this cycle
Fetched == pc \in {"got_data", "post"} \/ (pc = "main_end" /\ WEBHOOK_URL /\ ~raised)

AllAdaptersFailed ==
    /\ WEBHOOK_URL
    /\ pc \in {"got_data", "post", "main_end"}
    /\ ~raised
    /\ poly_data = None
    /\ (yfResp = None \/ yfResp.kind = "exception")

\* C2: in a cycle in which every adapter fails, main reports the error and
\* returns: no payload is composed and no delivery is attempted.
C2_AbortWhenAllFail ==
    AllAdaptersFailed =>
        /\ data = None
        /\ payload = None
        /\ "discord" \notin Range(calls)
        /\ pc # "post"
        /\ pc = "main_end" => out[Len(out)] = "failed_to_get_live_data"

\* Both adapters were called, both raised, and the cycle has ended.
C2_Witness ==
    /\ pc = "main_end"
    /\ polyResp # None
    /\ polyResp.kind = "exception"
    /\ yfResp # None
    /\ yfResp.kind = "exception"
    /\ payload = None
    /\ out[Len(out)] = "failed_to_get_live_data"

\* The reference rule of the classifier: the label of the highest upper
\* threshold the price strictly exceeds, else DISCOUNT below the floor, else
\* SAFE.
UpperThresholds ==
    {[label |-> "NUCLEAR LIQUIDATION", level |-> NUCLEAR],
     [label |-> "MARGIN STRESS", level |-> MARGIN_STRESS],
     [label |-> "PIN BROKEN", level |-> PIN_BREAK]}

ReferenceStatus(price) ==
    LET exceeded == {t \in UpperThresholds : price > t.level}
    IN  IF exceeded # {}
        THEN (CHOOSE t \in exceeded : \A u \in exceeded : u.level <= t.level).label
        ELSE IF price < NATURAL_FLOOR THEN "DISCOUNT"
        ELSE "SAFE"

\* C3: the status in the title of every composed payload is the reference
\* rule's label for the observation's price; above the highest threshold it
\* is the top label, at a threshold's level it is not that threshold's label,
\* at the floor it is SAFE.
C3_StatusIsReferenceRule ==
    payload # None =>
        /\ payload.price = data.price
        /\ payload.title = ReferenceStatus(data.price)
        /\ data.price > NUCLEAR => payload.title = "NUCLEAR LIQUIDATION"
        /\ data.price = NUCLEAR => payload.title = "MARGIN STRESS"
        /\ data.price = MARGIN_STRESS => payload.title = "PIN BROKEN"
        /\ data.price = PIN_BREAK => payload.title = "SAFE"
        /\ data.price = NATURAL_FLOOR => payload.title = "SAFE"

\* A payload composed for a price exactly at the floor.
C3_Witness ==
    /\ payload # None
    /\ data.price = NATURAL_FLOOR
    /\ payload.title = "SAFE"

\* The claim's trading window: 09:30 to the 16:00 close.
OutsideTradingWindow(t) ==
    MinuteOfDay(t) < market_open \/ MinuteOfDay(t) > 16 * 60

\* C4: an observation produced while the time of day is outside the trading
\* window has velocity exactly 0, whatever its volume.
C4_ZeroVelocityOutsideWindow ==
    (Fetched /\ data # None /\ now # None /\ OutsideTradingWindow(now)) =>
        /\ "velocity" \in DOMAIN data
        /\ data.velocity.num = 0

PressureLabels == {"BUYING PRESSURE", "SELLING WALL", "BALANCED"}

\* C5: a payload composed from an observation without an imbalance shows
\* none of the balanced, buying or selling labels; with an imbalance the
\* label is buying iff imbalance > 0.3, selling iff imbalance < -0.3,
\* balanced otherwise.
C5_NoPressureLabelWithoutImbalance ==
    payload # None =>
        IF "imbalance" \in DOMAIN data
        THEN /\ payload.pressure = "BUYING PRESSURE" <=> data.imbalance > 30
             /\ payload.pressure = "SELLING WALL" <=> data.imbalance < -30
             /\ payload.pressure \in PressureLabels
        ELSE payload.pressure \notin PressureLabels

SpreadTags == {"WIDENING - Vacuum Forming", "Tight - Algo Controlled"}

\* C6: a payload composed from an observation that lacks spread, bid_size or
\* ask_size shows a placeholder, not a number or a measured tag, in each such
\* field; and an observation carries these fields only when the snapshot
\* held a quote.
C6_PlaceholdersForAbsentFields ==
    /\ payload # None =>
        /\ "spread" \notin DOMAIN data =>
              /\ "num" \notin DOMAIN payload.spread_width
              /\ payload.spread_tag \notin SpreadTags
        /\ "bid_size" \notin DOMAIN data => "num" \notin DOMAIN payload.bid_stack
        /\ "ask_size" \notin DOMAIN data => "num" \notin DOMAIN payload.ask_wall
    /\ (Fetched /\ poly_data # None /\ polyResp.body.lastQuote = None) =>
        DOMAIN data \cap {"spread", "bid_size", "ask_size"} = {}

\* An adapter's failure is on record in this cycle
ReasonRecorded(adapter) ==
    \/ adapter = "polygon" /\ "polygon_fetch_error" \in Range(out)
    \/ adapter = "yfinance" /\ "data_fetch_error" \in Range(out)

\* C9: when get_live_data returns no observation, every adapter that was
\* called has its failure and reason on record, and an adapter that was
\* skipped as unavailable has none.
C9_FailureEnumeratesReasons ==
    (pc = "got_data" /\ data = None) =>
        \A adapter \in {"polygon", "yfinance"} :
            adapter \in Range(calls) <=> ReasonRecorded(adapter)

\* C7: in --loop mode every call of main, returned or raised, is followed by
\* the sleep and the loop test; the loop test starts the next call of main
\* while the deadline has not passed; the process never dies of an exception
\* and leaves the loop only at the deadline.
C7_LoopSurvivesFailure ==
    [][loop =>
        /\ pc = "main_end" => pc' = "loop_test" /\ clock' = clock + SLEEP_SECONDS
        /\ pc = "loop_test" /\ clock < end_time => pc' = "main"
        /\ pc' = "main" => pc = "loop_test"
        /\ pc' # "crashed"
        /\ pc' = "exit" => clock >= end_time]_vars

\* A call of main raised and, after the sleep, the next call is starting.
C7_Witness ==
    /\ loop
    /\ pc = "main"
    /\ raised
    /\ clock = SLEEP_SECONDS
    /\ "loop_error" \in Range(out)

\* C8: a cycle posts at most once, and only with an observation and a
\* composed payload; after the post the outcome is printed and main has
\* returned, whatever the answer was.
C8_SingleDeliveryAttempt ==
    /\ Count(calls, "discord") <= 1
    /\ "discord" \in Range(calls) =>
          /\ data # None
          /\ payload # None
          /\ pc \in {"main_end", "loop_test", "main", "exit"}
          /\ \E i \in 1..Len(out) :
                out[i] \in {"alert_sent", "send_failed", "connection_error"}
    /\ pc = "post" => data # None /\ payload # None

\* The channel answered 500 and the cycle has ended after the one attempt.
C8_Witness ==
    /\ pc = "main_end"
    /\ Count(calls, "discord") = 1
    /\ out[Len(out)] = "send_failed"

\* C10: the Key Levels field agrees with the status: the status of an upper
\* threshold marks it and every lower threshold BREACHED and the floor HELD;
\* the floor is AT RISK exactly when the status is DISCOUNT, and then no
\* threshold is BREACHED.
C10_LevelsAgreeWithStatus ==
    payload # None =>
        /\ payload.title = "NUCLEAR LIQUIDATION" =>
              /\ payload.nuclear = "BREACHED"
              /\ payload.stress = "BREACHED"
              /\ payload.pin = "BREACHED"
              /\ payload.floor = "HELD"
        /\ payload.title = "MARGIN STRESS" =>
              /\ payload.stress = "BREACHED"
              /\ payload.pin = "BREACHED"
              /\ payload.floor = "HELD"
        /\ payload.title = "PIN BROKEN" =>
              /\ payload.pin = "BREACHED"
              /\ payload.floor = "HELD"
        /\ payload.floor = "AT RISK" <=> payload.title = "DISCOUNT"
        /\ payload.title = "DISCOUNT" =>
              "BREACHED" \notin {payload.nuclear, payload.stress, payload.pin}

\* The payload of price 5.50: MARGIN STRESS, the two lower thresholds
\* breached, the top one not, the floor held.
C10_Witness ==
    /\ payload # None
    /\ data.price = 5500
    /\ payload.title = "MARGIN STRESS"
    /\ payload.stress = "BREACHED"
    /\ payload.pin = "BREACHED"
    /\ payload.nuclear = "Wait..."
    /\ payload.floor = "HELD"

====
